---- MODULE Spec2Model ----
(***************************************************************************)
(* The H=N marketplace contract (smart-py/objkt_swap_v3.py) as a state     *)
(* machine.  The contract storage is the record `data` (self.data); every  *)
(* entry point is an operator from the storage and the call context        *)
(* (sender, amount, parameters) to a result: an error message, or the new  *)
(* storage and the list of operations the entry point emits.  The host     *)
(* then executes the emitted operations; if the entry point or any of its  *)
(* operations fails, the whole call is rolled back.                        *)
(***************************************************************************)
EXTENDS Integers, Sequences, FiniteSets, TLC

VARIABLES
    data,       \* the contract storage (self.data)
    custody,    \* editions the token ledgers hold for the marketplace account
    balance,    \* the marketplace's own tez balance
    last,       \* the last committed call: entry point, context, operations
    hist,       \* per swap id ever assigned: editions, fee and fee recipient
                \* at opening, collects
    cancelled,  \* the swap ids removed by cancel_swap
    calls       \* how many calls were committed

vars == <<data, custody, balance, last, hist, cancelled, calls>>

(* ------------------------------ bounds -------------------------------- *)

\* Successful swaps in one behaviour (caps data.counter).
MaxSwaps == 2
\* Committed calls in one behaviour.
MaxCalls == 3

(* --------------------------- input domains ---------------------------- *)

Accounts == {"alice", "bob", "carol"}
\* The accounts that open swaps: the first manager and another account.
Issuers == {"alice", "bob"}
SelfAddress == "marketplace"
FA2s == {"objkt", "other"}
TokenIds == {0}
Tokens == FA2s \X TokenIds
EditionInputs == {0, 1, 2}
Prices == {0, 7, 1000}
Amounts == {0, 7, 1000}
RoyaltyInputs == {100, 251}
FeeInputs == {250, 251}
FeeRecipients == {"bob"}
Creators == {"bob"}
InitManagers == {"alice"}
InitFees == {25, 950}
InitAllowed == {"objkt"}
MetadataKeys == {""}
MetadataValues == {"ipfs://bbb"}
None == "none"

\* What the environment does with the call's operations: the FA2 contract
\* may lack a transfer entry point, its transfer may fail, a tez send may
\* be refused by its destination.
Envs == {"ok", "no_entry_point", "transfer_fails", "send_fails"}

(* --------------------------- the storage ------------------------------ *)

\* The royalties and management fee limit (1000 is 100%).
MaxRate == 250
\* The denominator of royalties and fees.
RateTotal == 1000

InitStorage(manager, metadata, allowed_fa2s, fee) ==
    [ manager          |-> manager,
      metadata         |-> metadata,
      allowed_fa2s     |-> allowed_fa2s,
      swaps            |-> <<>>,
      fee              |-> fee,
      fee_recipient    |-> manager,
      counter          |-> 0,
      proposed_manager |-> None,
      swaps_paused     |-> FALSE,
      collects_paused  |-> FALSE ]

\* big_map.get(key, default_value)
MapGet(m, k, default) == IF k \in DOMAIN m THEN m[k] ELSE default

\* big_map[key] = value
MapSet(m, k, v) == [x \in DOMAIN m \cup {k} |-> IF x = k THEN v ELSE m[x]]

\* del big_map[key]
MapDel(m, k) == [x \in DOMAIN m \ {k} |-> m[x]]

(* ------------------------- results of a call -------------------------- *)

Fail(s, msg) == [err |-> msg, data |-> s, ops |-> <<>>]
Done(s, ops) == [err |-> "", data |-> s, ops |-> ops]

\* sp.send(destination, amount)
Send(to, amount) ==
    [kind |-> "send", to |-> to, amount |-> amount]

\* sp.split_tokens(amount, quantity, total): amount * quantity / total.
split_tokens(amount, quantity, total) == (amount * quantity) \div total

\* A check_is_manager that lets every sender through.
check_is_manager_anyone(s, sender) == TRUE

check_is_manager(s, sender) == sender = s.manager

\* A check_no_tez_transfer that accepts any amount.
check_no_tez_transfer_any_amount(amount) == TRUE

check_no_tez_transfer(amount) == amount = 0

\* The transfer operation fa2_transfer emits towards the FA2 contract.
fa2_transfer(fa2, from_, to_, token_id, token_amount) ==
    [kind |-> "transfer", fa2 |-> fa2, from_ |-> from_, to_ |-> to_,
     token_id |-> token_id, amount |-> token_amount]

\* sp.contract(..., address=fa2, entry_point="transfer").open_some()
has_transfer_entry_point(env) == env # "no_entry_point"

(* --------------------------- entry points ----------------------------- *)

\* swap: the first check that fails, or "" when all pass.
swap_error(s, amount, params, env) ==
    IF s.swaps_paused THEN "Swaps are paused"
    ELSE IF ~check_no_tez_transfer(amount)
        THEN "The operation does not need tez transfers"
    ELSE IF ~MapGet(s.allowed_fa2s, params.fa2, FALSE)
        THEN "This token type cannot be traded"
    ELSE IF ~(params.objkt_amount > 0)
        THEN "At least one edition needs to be swapped"
    ELSE IF ~(params.royalties <= MaxRate)
        THEN "The royalties cannot be higher than 25%"
    ELSE IF ~has_transfer_entry_point(env)
        THEN "open_some"
    ELSE ""

\* swap: all the editions go to the marketplace account.
swap_operations(sender, params) ==
    << fa2_transfer(params.fa2, sender, SelfAddress,
                    params.objkt_id, params.objkt_amount) >>

\* A swap_storage that stores the swap and forgets to increase the counter.
swap_storage_same_counter(s, sender, params) ==
    [s EXCEPT
        !.swaps = MapSet(s.swaps, s.counter,
            [ issuer        |-> sender,
              fa2           |-> params.fa2,
              objkt_id      |-> params.objkt_id,
              objkt_amount  |-> params.objkt_amount,
              xtz_per_objkt |-> params.xtz_per_objkt,
              royalties     |-> params.royalties,
              creator       |-> params.creator ])]

\* swap: the new entry of the swaps big map and the increased counter.
swap_storage(s, sender, params) ==
    [s EXCEPT
        !.swaps = MapSet(s.swaps, s.counter,
            [ issuer        |-> sender,
              fa2           |-> params.fa2,
              objkt_id      |-> params.objkt_id,
              objkt_amount  |-> params.objkt_amount,
              xtz_per_objkt |-> params.xtz_per_objkt,
              royalties     |-> params.royalties,
              creator       |-> params.creator ]),
        !.counter = s.counter + 1]

swap(s, sender, amount, params, env) ==
    LET error == swap_error(s, amount, params, env) IN
    IF error # ""
    THEN Fail(s, error)
    ELSE Done(swap_storage(s, sender, params), swap_operations(sender, params))

\* collect: the shares of the edition price.
royalties_amount(s, sw) ==
    split_tokens(sw.xtz_per_objkt, sw.royalties, RateTotal)

\* A fee share computed with the fee of the compilation target, whatever
\* fee the storage holds.
fee_amount_of_deployment(s, sw) ==
    split_tokens(sw.xtz_per_objkt, 25, RateTotal)

fee_amount(s, sw) ==
    split_tokens(sw.xtz_per_objkt, s.fee, RateTotal)

\* An issuer share computed by a third division instead of a subtraction.
issuer_amount_by_division(s, sw, amount) ==
    split_tokens(amount, RateTotal - sw.royalties - s.fee, RateTotal)

issuer_amount(s, sw, amount) ==
    amount - royalties_amount(s, sw) - fee_amount(s, sw)

\* A collect that lets the issuer collect their own swap.
collect_sender_ok_anyone(sw, sender) == TRUE

\* collect: the collector is not the issuer of the swap.
collect_sender_ok(sw, sender) == sender # sw.issuer

\* A collect that accepts any amount that covers the edition price.
collect_amount_ok_at_least(sw, amount) == amount >= sw.xtz_per_objkt

\* collect: the tez amount is exactly the edition price.
collect_amount_ok(sw, amount) == amount = sw.xtz_per_objkt

\* collect: there is at least one edition available.
collect_available(sw) == sw.objkt_amount > 0

\* collect: the first check that fails, or "" when all pass.
collect_error(s, sender, amount, swap_id, env) ==
    IF s.collects_paused THEN "Collects are paused"
    ELSE IF swap_id \notin DOMAIN s.swaps
        THEN "The provided swap_id doesn't exist"
    ELSE LET sw == s.swaps[swap_id] IN
         IF ~collect_sender_ok(sw, sender)
             THEN "The collector cannot be the swap issuer"
         ELSE IF ~collect_amount_ok(sw, amount)
             THEN "The sent tez amount does not coincide with the edition price"
         ELSE IF ~collect_available(sw)
             THEN "All editions have already been collected"
         \* a mutez subtraction fails on a negative result
         ELSE IF sw.xtz_per_objkt # 0 /\ issuer_amount(s, sw, amount) < 0
             THEN "mutez underflow"
         ELSE IF ~has_transfer_entry_point(env)
             THEN "open_some"
         \* sp.as_nat fails on a negative number
         ELSE IF sw.objkt_amount - 1 < 0
             THEN "as_nat"
         ELSE ""

\* A collect that sends the issuer share also when the price is zero.
collect_operations_sends_zero(s, sender, amount, swap_id) ==
    LET sw == s.swaps[swap_id] IN
    (IF royalties_amount(s, sw) > 0
     THEN << Send(sw.creator, royalties_amount(s, sw)) >>
     ELSE << >>)
    \o (IF fee_amount(s, sw) > 0
        THEN << Send(s.fee_recipient, fee_amount(s, sw)) >>
        ELSE << >>)
    \o << Send(sw.issuer, issuer_amount(s, sw, amount)) >>
    \o << fa2_transfer(sw.fa2, SelfAddress, sender, sw.objkt_id, 1) >>

\* collect: the tez sends, then the transfer of one edition to the collector.
collect_operations(s, sender, amount, swap_id) ==
    LET sw == s.swaps[swap_id] IN
    (IF sw.xtz_per_objkt # 0
     THEN (IF royalties_amount(s, sw) > 0
           THEN << Send(sw.creator, royalties_amount(s, sw)) >>
           ELSE << >>)
          \o (IF fee_amount(s, sw) > 0
              THEN << Send(s.fee_recipient, fee_amount(s, sw)) >>
              ELSE << >>)
          \o << Send(sw.issuer, issuer_amount(s, sw, amount)) >>
     ELSE << >>)
    \o << fa2_transfer(sw.fa2, SelfAddress, sender, sw.objkt_id, 1) >>

\* A collect_storage that takes two editions off the swap.
collect_storage_minus_two(s, swap_id) ==
    [s EXCEPT !.swaps[swap_id].objkt_amount = s.swaps[swap_id].objkt_amount - 2]

\* collect: one edition less in the swaps big map.
collect_storage(s, swap_id) ==
    [s EXCEPT !.swaps[swap_id].objkt_amount = s.swaps[swap_id].objkt_amount - 1]

collect(s, sender, amount, swap_id, env) ==
    LET error == collect_error(s, sender, amount, swap_id, env) IN
    IF error # ""
    THEN Fail(s, error)
    ELSE Done(collect_storage(s, swap_id),
              collect_operations(s, sender, amount, swap_id))

\* A cancel_swap that anybody may call.
cancel_swap_sender_ok_anyone(sw, sender) == TRUE

\* cancel_swap: the swap issuer is cancelling the swap.
cancel_swap_sender_ok(sw, sender) == sender = sw.issuer

\* A cancel_swap that also cancels a swap with no edition left.
cancel_swap_available_even_empty(sw) == sw.objkt_amount >= 0

\* cancel_swap: there is at least one swapped edition.
cancel_swap_available(sw) == sw.objkt_amount > 0

\* A cancel_swap that the swaps pause flag blocks.
cancel_swap_error_when_paused(s, sender, amount, swap_id, env) ==
    IF s.swaps_paused THEN "Swaps are paused"
    ELSE IF ~check_no_tez_transfer(amount)
        THEN "The operation does not need tez transfers"
    ELSE IF swap_id \notin DOMAIN s.swaps
        THEN "The provided swap_id doesn't exist"
    ELSE IF ~cancel_swap_sender_ok(s.swaps[swap_id], sender)
        THEN "Only the swap issuer can cancel the swap"
    ELSE IF ~cancel_swap_available(s.swaps[swap_id])
        THEN "All editions have been collected"
    ELSE IF ~has_transfer_entry_point(env)
        THEN "open_some"
    ELSE ""

\* cancel_swap: the first check that fails, or "" when all pass.
cancel_swap_error(s, sender, amount, swap_id, env) ==
    IF ~check_no_tez_transfer(amount)
        THEN "The operation does not need tez transfers"
    ELSE IF swap_id \notin DOMAIN s.swaps
        THEN "The provided swap_id doesn't exist"
    ELSE IF ~cancel_swap_sender_ok(s.swaps[swap_id], sender)
        THEN "Only the swap issuer can cancel the swap"
    ELSE IF ~cancel_swap_available(s.swaps[swap_id])
        THEN "All editions have been collected"
    ELSE IF ~has_transfer_entry_point(env)
        THEN "open_some"
    ELSE ""

\* A cancel_swap that gives back one edition whatever remains.
cancel_swap_operations_one_edition(s, sender, swap_id) ==
    LET sw == s.swaps[swap_id] IN
    << fa2_transfer(sw.fa2, SelfAddress, sender, sw.objkt_id, 1) >>

\* cancel_swap: the remaining editions go back to the sender.
cancel_swap_operations(s, sender, swap_id) ==
    LET sw == s.swaps[swap_id] IN
    << fa2_transfer(sw.fa2, SelfAddress, sender, sw.objkt_id, sw.objkt_amount) >>

\* A cancel_swap that empties the entry and leaves it in the big map.
cancel_swap_storage_keeps_entry(s, swap_id) ==
    [s EXCEPT !.swaps[swap_id].objkt_amount = 0]

\* cancel_swap: the entry leaves the swaps big map.
cancel_swap_storage(s, swap_id) ==
    [s EXCEPT !.swaps = MapDel(s.swaps, swap_id)]

cancel_swap(s, sender, amount, swap_id, env) ==
    LET error == cancel_swap_error(s, sender, amount, swap_id, env) IN
    IF error # ""
    THEN Fail(s, error)
    ELSE Done(cancel_swap_storage(s, swap_id),
              cancel_swap_operations(s, sender, swap_id))

\* The two checks every manager entry point starts with.
ManagerChecks(s, sender, amount, r) ==
    IF ~check_is_manager(s, sender)
        THEN Fail(s, "This can only be executed by the manager")
    ELSE IF ~check_no_tez_transfer(amount)
        THEN Fail(s, "The operation does not need tez transfers")
    ELSE r

update_fee(s, sender, amount, new_fee) ==
    ManagerChecks(s, sender, amount,
        IF ~(new_fee <= MaxRate)
            THEN Fail(s, "The management fee cannot be higher than 25%")
        ELSE Done([s EXCEPT !.fee = new_fee], << >>))

update_fee_recipient(s, sender, amount, new_fee_recipient) ==
    ManagerChecks(s, sender, amount,
        Done([s EXCEPT !.fee_recipient = new_fee_recipient], << >>))

transfer_manager(s, sender, amount, proposed_manager) ==
    ManagerChecks(s, sender, amount,
        Done([s EXCEPT !.proposed_manager = proposed_manager], << >>))

\* An accept_manager that does not check who accepts.
accept_manager_by_anyone(s, sender, amount) ==
    IF ~(s.proposed_manager # None)
        THEN Fail(s, "No new manager has been proposed")
    ELSE IF ~check_no_tez_transfer(amount)
        THEN Fail(s, "The operation does not need tez transfers")
    ELSE Done([s EXCEPT !.manager = sender, !.proposed_manager = None], << >>)

accept_manager(s, sender, amount) ==
    IF ~(s.proposed_manager # None)
        THEN Fail(s, "No new manager has been proposed")
    ELSE IF ~(sender = s.proposed_manager)
        THEN Fail(s, "This can only be executed by the proposed manager")
    ELSE IF ~check_no_tez_transfer(amount)
        THEN Fail(s, "The operation does not need tez transfers")
    ELSE Done([s EXCEPT !.manager = sender, !.proposed_manager = None], << >>)

update_metadata(s, sender, amount, params) ==
    ManagerChecks(s, sender, amount,
        Done([s EXCEPT !.metadata = MapSet(s.metadata, params.key, params.value)],
             << >>))

add_fa2(s, sender, amount, fa2) ==
    ManagerChecks(s, sender, amount,
        Done([s EXCEPT !.allowed_fa2s = MapSet(s.allowed_fa2s, fa2, TRUE)], << >>))

\* A remove_fa2 that deletes the key instead of storing False.
remove_fa2_deletes_key(s, sender, amount, fa2) ==
    ManagerChecks(s, sender, amount,
        Done([s EXCEPT !.allowed_fa2s = MapDel(s.allowed_fa2s, fa2)], << >>))

remove_fa2(s, sender, amount, fa2) ==
    ManagerChecks(s, sender, amount,
        Done([s EXCEPT !.allowed_fa2s = MapSet(s.allowed_fa2s, fa2, FALSE)], << >>))

\* A pause_swaps that sets both pause flags.
pause_swaps_pauses_both(s, sender, amount, pause) ==
    ManagerChecks(s, sender, amount,
        Done([s EXCEPT !.swaps_paused = pause, !.collects_paused = pause], << >>))

pause_swaps(s, sender, amount, pause) ==
    ManagerChecks(s, sender, amount,
        Done([s EXCEPT !.swaps_paused = pause], << >>))

pause_collects(s, sender, amount, pause) ==
    ManagerChecks(s, sender, amount,
        Done([s EXCEPT !.collects_paused = pause], << >>))

(* ------------------------------- views -------------------------------- *)

get_manager(s) == s.manager

is_allowed_fa2(s, fa2) == MapGet(s.allowed_fa2s, fa2, FALSE)

has_swap(s, swap_id) == swap_id \in DOMAIN s.swaps

get_swap(s, swap_id) ==
    IF swap_id \notin DOMAIN s.swaps
    THEN [err |-> "The provided swap_id doesn't exist", value |-> None]
    ELSE [err |-> "", value |-> s.swaps[swap_id]]

get_swaps_counter(s) == s.counter

get_fee(s) == s.fee

get_fee_recipient(s) == s.fee_recipient

(* ------------------------ the host's execution ------------------------ *)

\* The host executes the operations of a call in order, starting from the
\* marketplace balance credited with the call's amount.  A tez send fails
\* when its destination refuses it or the balance does not cover it; an
\* FA2 transfer fails when the token ledger refuses it or the marketplace
\* holds fewer editions than it is asked to give.
RECURSIVE ApplyOps(_, _, _, _)
ApplyOps(ops, bal, cust, env) ==
    IF ops = << >>
    THEN [ok |-> TRUE, balance |-> bal, custody |-> cust]
    ELSE LET op == Head(ops) IN
         IF op.kind = "send"
         THEN IF env = "send_fails" \/ op.amount > bal
              THEN [ok |-> FALSE, balance |-> bal, custody |-> cust]
              ELSE ApplyOps(Tail(ops), bal - op.amount, cust, env)
         ELSE LET t == << op.fa2, op.token_id >>
                  given == IF op.from_ = SelfAddress THEN op.amount ELSE 0
                  taken == IF op.to_ = SelfAddress THEN op.amount ELSE 0
              IN IF env = "transfer_fails" \/ given > cust[t]
                 THEN [ok |-> FALSE, balance |-> bal, custody |-> cust]
                 ELSE ApplyOps(Tail(ops), bal,
                               [cust EXCEPT ![t] = cust[t] - given + taken], env)

\* A host that keeps what the operations before the failed one did.
Execute_keeps_payments(s, cust, bal, r, amount, env) ==
    LET a == ApplyOps(r.ops, bal + amount, cust, env) IN
    IF r.err # ""
    THEN [err |-> r.err, data |-> s, custody |-> cust, balance |-> bal,
          ops |-> << >>]
    ELSE IF ~a.ok
    THEN [err |-> "operation failed", data |-> s, custody |-> a.custody,
          balance |-> a.balance, ops |-> << >>]
    ELSE [err |-> "", data |-> r.data, custody |-> a.custody,
          balance |-> a.balance, ops |-> r.ops]

\* The outcome of a call whose entry point returned r: a failed entry
\* point or a failed operation rolls the whole call back.
Execute(s, cust, bal, r, amount, env) ==
    LET a == ApplyOps(r.ops, bal + amount, cust, env) IN
    IF r.err # ""
    THEN [err |-> r.err, data |-> s, custody |-> cust, balance |-> bal,
          ops |-> << >>]
    ELSE IF ~a.ok
    THEN [err |-> "operation failed", data |-> s, custody |-> cust,
          balance |-> bal, ops |-> << >>]
    ELSE [err |-> "", data |-> r.data, custody |-> a.custody,
          balance |-> a.balance, ops |-> r.ops]

(* ------------------------------ the machine --------------------------- *)

SwapIds == 0..MaxSwaps

SwapParams ==
    [ fa2 : FA2s, objkt_id : TokenIds, objkt_amount : EditionInputs,
      xtz_per_objkt : Prices, royalties : RoyaltyInputs, creator : Creators ]

MetadataParams == [ key : MetadataKeys, value : MetadataValues ]

Init ==
    /\ \E manager \in InitManagers, fee \in InitFees :
          data = InitStorage(manager,
                             [k \in MetadataKeys |-> "ipfs://aaa"],
                             [f \in InitAllowed |-> TRUE],
                             fee)
    /\ custody = [t \in Tokens |-> 0]
    /\ balance = 0
    /\ last = [op |-> "origination", sender |-> None, amount |-> 0,
               arg |-> None, ops |-> << >>]
    /\ hist = << >>
    /\ cancelled = {}
    /\ calls = 0

\* One committed call of an entry point: r is what the entry point
\* returned.  A call that fails is rolled back by the host and leaves no
\* trace in the state, so the step exists only when the call succeeds.
Call(op, sender, amount, arg, r, env) ==
    LET o == Execute(data, custody, balance, r, amount, env) IN
    /\ o.err = ""
    /\ calls' = calls + 1
    /\ data' = o.data
    /\ custody' = o.custody
    /\ balance' = o.balance
    /\ last' = [op |-> op, sender |-> sender, amount |-> amount,
                arg |-> arg, ops |-> o.ops]

\* A committed call of a manager entry point.
AdminCall(op, sender, amount, arg, r) ==
    /\ Call(op, sender, amount, arg, r, "ok")
    /\ UNCHANGED << hist, cancelled >>

Swap ==
    /\ calls < MaxCalls
    /\ data.counter < MaxSwaps
    /\ \E sender \in Issuers, amount \in Amounts, params \in SwapParams,
       env \in Envs :
        /\ Call("swap", sender, amount, data.counter,
                swap(data, sender, amount, params, env), env)
        /\ hist' = MapSet(hist, data.counter,
                          [editions |-> params.objkt_amount, collects |-> 0,
                           fee |-> data.fee,
                           fee_recipient |-> data.fee_recipient])
        /\ UNCHANGED cancelled

Collect ==
    /\ calls < MaxCalls
    /\ \E sender \in Accounts, amount \in Amounts, swap_id \in SwapIds,
       env \in Envs :
        /\ Call("collect", sender, amount, swap_id,
                collect(data, sender, amount, swap_id, env), env)
        /\ hist' = [hist EXCEPT ![swap_id].collects = @ + 1]
        /\ UNCHANGED cancelled

CancelSwap ==
    /\ calls < MaxCalls
    /\ \E sender \in Accounts, amount \in Amounts, swap_id \in SwapIds,
       env \in Envs :
        /\ Call("cancel_swap", sender, amount, swap_id,
                cancel_swap(data, sender, amount, swap_id, env), env)
        /\ cancelled' = cancelled \cup {swap_id}
        /\ UNCHANGED hist

UpdateFee ==
    /\ calls < MaxCalls
    /\ \E sender \in Accounts, amount \in Amounts, new_fee \in FeeInputs :
        AdminCall("update_fee", sender, amount, new_fee,
                  update_fee(data, sender, amount, new_fee))

UpdateFeeRecipient ==
    /\ calls < MaxCalls
    /\ \E sender \in Accounts, amount \in Amounts, a \in FeeRecipients :
        AdminCall("update_fee_recipient", sender, amount, a,
                  update_fee_recipient(data, sender, amount, a))

TransferManager ==
    /\ calls < MaxCalls
    /\ \E sender \in Accounts, amount \in Amounts, a \in Accounts :
        AdminCall("transfer_manager", sender, amount, a,
                  transfer_manager(data, sender, amount, a))

AcceptManager ==
    /\ calls < MaxCalls
    /\ \E sender \in Accounts, amount \in Amounts :
        AdminCall("accept_manager", sender, amount, None,
                  accept_manager(data, sender, amount))

UpdateMetadata ==
    /\ calls < MaxCalls
    /\ \E sender \in Accounts, amount \in Amounts, params \in MetadataParams :
        AdminCall("update_metadata", sender, amount, params.value,
                  update_metadata(data, sender, amount, params))

AddFa2 ==
    /\ calls < MaxCalls
    /\ \E sender \in Accounts, amount \in Amounts, fa2 \in FA2s :
        AdminCall("add_fa2", sender, amount, fa2,
                  add_fa2(data, sender, amount, fa2))

RemoveFa2 ==
    /\ calls < MaxCalls
    /\ \E sender \in Accounts, amount \in Amounts, fa2 \in FA2s :
        AdminCall("remove_fa2", sender, amount, fa2,
                  remove_fa2(data, sender, amount, fa2))

PauseSwaps ==
    /\ calls < MaxCalls
    /\ \E sender \in Accounts, amount \in Amounts, pause \in BOOLEAN :
        AdminCall("pause_swaps", sender, amount, pause,
                  pause_swaps(data, sender, amount, pause))

PauseCollects ==
    /\ calls < MaxCalls
    /\ \E sender \in Accounts, amount \in Amounts, pause \in BOOLEAN :
        AdminCall("pause_collects", sender, amount, pause,
                  pause_collects(data, sender, amount, pause))

Next ==
    \/ Swap
    \/ Collect
    \/ CancelSwap
    \/ UpdateFee
    \/ UpdateFeeRecipient
    \/ TransferManager
    \/ AcceptManager
    \/ UpdateMetadata
    \/ AddFa2
    \/ RemoveFa2
    \/ PauseSwaps
    \/ PauseCollects

Spec == Init /\ [][Next]_vars

(* ------------------------------- claims ------------------------------- *)

\* The step just taken committed a call of entry point op.
Committed(op) == calls' = calls + 1 /\ last'.op = op

\* C1, on states: every swap id in the swaps big map is below the counter,
\* the ids assigned so far are exactly 0 .. counter - 1, and no id that
\* cancel_swap removed is in the big map again.
C1_Ids ==
    /\ DOMAIN data.swaps \subseteq 0..(data.counter - 1)
    /\ DOMAIN hist = 0..(data.counter - 1)
    /\ cancelled \cap DOMAIN data.swaps = {}
    /\ cancelled \subseteq 0..(data.counter - 1)

\* C1, on steps: a committed swap stores its record under the old value
\* of the counter, which was not in the big map, and increases the counter
\* by exactly 1; every other step leaves the counter alone and adds no id.
C1_Step ==
    /\ Committed("swap") =>
          /\ data'.counter = data.counter + 1
          /\ data.counter \notin DOMAIN data.swaps
          /\ DOMAIN data'.swaps = DOMAIN data.swaps \cup {data.counter}
          /\ data'.swaps[data.counter].issuer = last'.sender
          /\ data.counter \notin cancelled
    /\ ~Committed("swap") =>
          /\ data'.counter = data.counter
          /\ DOMAIN data'.swaps \subseteq DOMAIN data.swaps

\* C1: the counter starts at 0, the k-th committed swap is stored under
\* id k, only swap changes the counter, every id in the big map is below
\* the counter, and a cancelled id is never assigned again.
C1_MonotonicIds ==
    /\ data.counter = 0
    /\ []C1_Ids
    /\ [][C1_Step]_vars

\* C1 witness: a swap was opened after an earlier swap was cancelled.
C1_Witness ==
    /\ last.op = "swap"
    /\ cancelled # {}
    /\ data.counter = 2
    /\ DOMAIN data.swaps = {1}

\* The swap the last committed call referred to (collect leaves it in place).
LastSwap == data.swaps[last.arg]

\* The tez sends among the operations of the last committed call.
LastSends == SelectSeq(last.ops, LAMBDA o : o.kind = "send")

\* The FA2 transfers among the operations of the last committed call.
LastTransfers == SelectSeq(last.ops, LAMBDA o : o.kind = "transfer")

RECURSIVE SumAmounts(_)
SumAmounts(ops) ==
    IF ops = << >> THEN 0 ELSE Head(ops).amount + SumAmounts(Tail(ops))

\* floor(price * rate / 1000)
Share(price, rate) == (price * rate) \div 1000

\* C2: a committed collect on a swap of price P > 0 sends floor(P*r/1000)
\* to the creator and floor(P*f/1000) to the fee recipient (each only when
\* positive) and P minus both to the issuer, so that the sends add up to P
\* exactly; P = 1000, r = 100, f = 25 gives 100, 25 and 875.
C2_ExactSplit ==
    (last.op = "collect" /\ LastSwap.xtz_per_objkt > 0) =>
        LET P == LastSwap.xtz_per_objkt
            R == Share(P, LastSwap.royalties)
            F == Share(P, data.fee)
        IN /\ last.amount = P
           /\ SumAmounts(LastSends) = P
           /\ P - R - F >= 0
           /\ LastSends =
                 (IF R > 0 THEN << Send(LastSwap.creator, R) >> ELSE << >>)
                 \o (IF F > 0 THEN << Send(data.fee_recipient, F) >> ELSE << >>)
                 \o << Send(LastSwap.issuer, P - R - F) >>
           /\ (P = 1000 /\ LastSwap.royalties = 100 /\ data.fee = 25) =>
                 LastSends = << Send(LastSwap.creator, 100),
                                Send(data.fee_recipient, 25),
                                Send(LastSwap.issuer, 875) >>

\* C2 witness: a collect was committed whose fee share was truncated
\* (price 7 at 250 per thousand is 1.75, the fee sent is 1).
C2_Witness ==
    /\ last.op = "collect"
    /\ LastSwap.xtz_per_objkt = 7
    /\ data.fee = 250
    /\ Len(LastSends) = 2
    /\ LastSends[1].amount = 1
    /\ LastSends[2].amount = 6

\* C3, on states: a swap in the big map holds the editions it was opened
\* with minus the collects committed on it, never a negative number, and
\* with no edition left every collect on it fails.
C3_Remaining ==
    \A id \in DOMAIN data.swaps :
        /\ data.swaps[id].objkt_amount = hist[id].editions - hist[id].collects
        /\ data.swaps[id].objkt_amount >= 0
        /\ data.swaps[id].objkt_amount = 0 =>
              \A sender \in Accounts, amount \in Amounts, env \in Envs :
                  Execute(data, custody, balance,
                          collect(data, sender, amount, id, env),
                          amount, env).err # ""

\* C3, on steps: the editions of a swap that stays in the big map change
\* only in a committed collect on that swap, and then by exactly -1.
C3_Step ==
    \A id \in DOMAIN data.swaps \cap DOMAIN data'.swaps :
        data'.swaps[id].objkt_amount # data.swaps[id].objkt_amount =>
            /\ Committed("collect")
            /\ last'.arg = id
            /\ data'.swaps[id].objkt_amount = data.swaps[id].objkt_amount - 1

\* C3: after n committed collects a swap opened with N editions holds
\* N - n, never less than 0; only collect decreases it, by exactly 1; a
\* collect on a swap with 0 editions fails.
C3_EditionsCount == []C3_Remaining /\ [][C3_Step]_vars

\* C3 witness: a swap opened with 2 editions after 2 committed collects.
C3_Witness ==
    \E id \in DOMAIN data.swaps :
        /\ hist[id].editions = 2
        /\ hist[id].collects = 2
        /\ data.swaps[id].objkt_amount = 0
        /\ last.op = "collect"

\* The editions of token t that the swaps of storage s still offer.
RECURSIVE SumEditions(_, _, _)
SumEditions(s, ids, t) ==
    IF ids = {} THEN 0
    ELSE LET id == CHOOSE x \in ids : TRUE
             sw == s.swaps[id]
         IN (IF << sw.fa2, sw.objkt_id >> = t THEN sw.objkt_amount ELSE 0)
            + SumEditions(s, ids \ {id}, t)

\* C4, on states: for every token the marketplace account holds exactly
\* the editions that the swaps of that token still offer.
C4_Conserved ==
    \A t \in Tokens : custody[t] = SumEditions(data, DOMAIN data.swaps, t)

\* C4, on steps: swap takes in exactly the editions of the new record,
\* collect gives out exactly 1 edition of the swap's token, cancel_swap
\* gives out exactly the editions the swap still held.
C4_Step ==
    /\ Committed("swap") =>
          LET sw == data'.swaps[data.counter] IN
          last'.ops = << fa2_transfer(sw.fa2, last'.sender, SelfAddress,
                                      sw.objkt_id, sw.objkt_amount) >>
    /\ Committed("collect") =>
          LET sw == data.swaps[last'.arg] IN
          SelectSeq(last'.ops, LAMBDA o : o.kind = "transfer") =
              << fa2_transfer(sw.fa2, SelfAddress, last'.sender, sw.objkt_id, 1) >>
    /\ Committed("cancel_swap") =>
          LET sw == data.swaps[last'.arg] IN
          last'.ops = << fa2_transfer(sw.fa2, SelfAddress, last'.sender,
                                      sw.objkt_id, sw.objkt_amount) >>
    /\ (~Committed("swap") /\ ~Committed("collect") /\ ~Committed("cancel_swap")) =>
          (custody' = custody /\ last'.ops = << >>)

\* C4: with a token ledger that executes the transfers it is asked for,
\* the editions in the marketplace's custody equal, token by token, the sum
\* of the editions left in the swaps; swap takes in objkt_amount, collect
\* releases 1, cancel_swap releases what is left.
C4_Custody == []C4_Conserved /\ [][C4_Step]_vars

\* C4 witness: two swaps of the same token are open, one of them partly
\* collected, and the custody is the sum of what they hold.
C4_Witness ==
    /\ Cardinality(DOMAIN data.swaps) = 2
    /\ last.op = "collect"
    /\ custody[<< "objkt", 0 >>] = 3
    /\ data.swaps[0].objkt_amount + data.swaps[1].objkt_amount = 3

\* The outcome of a call, made in the current state, whose entry point
\* returned r.
Outcome(r, amount, env) == Execute(data, custody, balance, r, amount, env)

\* A failed call left the storage, the custody and the balance as they
\* were and executed no operation.
RolledBack(o) ==
    o.err # "" =>
        /\ o.data = data
        /\ o.custody = custody
        /\ o.balance = balance
        /\ o.ops = << >>

\* C5, on states: whatever entry point is called, with whatever sender, amount and
\* parameters, and whatever the token ledger or a tez destination does, a
\* call that fails leaves the storage, the custody and the marketplace
\* balance unchanged and executes no operation; a collect whose FA2
\* transfer fails keeps none of its tez sends.
C5_RolledBack ==
    \A sender \in Accounts, amount \in Amounts :
        /\ \A params \in SwapParams, env \in Envs :
              RolledBack(Outcome(swap(data, sender, amount, params, env), amount, env))
        /\ \A swap_id \in SwapIds, env \in Envs :
              /\ RolledBack(Outcome(collect(data, sender, amount, swap_id, env), amount, env))
              /\ RolledBack(Outcome(cancel_swap(data, sender, amount, swap_id, env), amount, env))
        /\ \A new_fee \in FeeInputs :
              RolledBack(Outcome(update_fee(data, sender, amount, new_fee), amount, "ok"))
        /\ \A a \in Accounts :
              /\ RolledBack(Outcome(update_fee_recipient(data, sender, amount, a), amount, "ok"))
              /\ RolledBack(Outcome(transfer_manager(data, sender, amount, a), amount, "ok"))
        /\ RolledBack(Outcome(accept_manager(data, sender, amount), amount, "ok"))
        /\ \A params \in MetadataParams :
              RolledBack(Outcome(update_metadata(data, sender, amount, params), amount, "ok"))
        /\ \A fa2 \in FA2s :
              /\ RolledBack(Outcome(add_fa2(data, sender, amount, fa2), amount, "ok"))
              /\ RolledBack(Outcome(remove_fa2(data, sender, amount, fa2), amount, "ok"))
        /\ \A pause \in BOOLEAN :
              /\ RolledBack(Outcome(pause_swaps(data, sender, amount, pause), amount, "ok"))
              /\ RolledBack(Outcome(pause_collects(data, sender, amount, pause), amount, "ok"))

\* C5: in every reachable state every call that fails, whether a check of
\* the entry point fails or the token ledger or a tez destination refuses
\* an operation, changes nothing and executes no operation.
C5_AllOrNothing == []C5_RolledBack

\* C5 witness: a collect passes every check and requests its tez sends,
\* and then fails because the FA2 transfer fails.
C5_Witness ==
    \E sender \in Accounts, swap_id \in DOMAIN data.swaps :
        LET P == data.swaps[swap_id].xtz_per_objkt
            r == collect(data, sender, P, swap_id, "transfer_fails")
        IN /\ P > 0
           /\ r.err = ""
           /\ Len(r.ops) >= 2
           /\ r.ops[1].kind = "send"
           /\ Outcome(r, P, "transfer_fails").err = "operation failed"

\* C6: a collect with an amount other than the edition price, lower or
\* higher, fails and changes nothing, and every committed collect carried
\* exactly the edition price.
C6_ExactPayment ==
    /\ \A swap_id \in DOMAIN data.swaps, sender \in Accounts,
          amount \in Amounts, env \in Envs :
          amount # data.swaps[swap_id].xtz_per_objkt =>
              LET o == Outcome(collect(data, sender, amount, swap_id, env),
                               amount, env)
              IN o.err # "" /\ RolledBack(o)
    /\ last.op = "collect" => last.amount = LastSwap.xtz_per_objkt

\* C6 witness: on an open swap of price 7 with editions left, a collect
\* by another account fails for its amount both with less (0) and with
\* more (1000) than the price.
C6_Witness ==
    \E swap_id \in DOMAIN data.swaps, sender \in Accounts :
        /\ data.swaps[swap_id].xtz_per_objkt = 7
        /\ data.swaps[swap_id].objkt_amount > 0
        /\ \A amount \in {0, 1000} :
              Outcome(collect(data, sender, amount, swap_id, "ok"), amount, "ok").err
                  = "The sent tez amount does not coincide with the edition price"

\* The error of a collect called by the issuer of swap swap_id.
IssuerCollectError(swap_id, amount, env) ==
    Outcome(collect(data, data.swaps[swap_id].issuer, amount, swap_id, env),
            amount, env).err

\* C7 as stated: a collect by the issuer of an existing swap fails with the
\* authorization error whatever the amount, the pause flag or the editions
\* left.
C7_AlwaysAuthorizationError ==
    \A swap_id \in DOMAIN data.swaps, amount \in Amounts, env \in Envs :
        IssuerCollectError(swap_id, amount, env)
            = "The collector cannot be the swap issuer"

\* C7, amended: a collect by the issuer of an existing swap always fails,
\* whatever the amount, the pause flag or the editions left; the error is
\* the authorization error unless collects are paused, when it is the
\* pause error, which is checked first; and no committed collect
\* transferred an edition to the issuer of its swap.
C7_IssuerCannotCollect ==
    /\ \A swap_id \in DOMAIN data.swaps, amount \in Amounts, env \in Envs :
          IssuerCollectError(swap_id, amount, env)
              = IF data.collects_paused
                THEN "Collects are paused"
                ELSE "The collector cannot be the swap issuer"
    /\ last.op = "collect" =>
          /\ last.sender # LastSwap.issuer
          /\ Len(LastTransfers) = 1
          /\ LastTransfers[1].to_ = last.sender
          /\ LastTransfers[1].to_ # LastSwap.issuer

\* C7 witness: collects are not paused, a swap has editions left, and its
\* issuer's collect with the exact price fails with the authorization
\* error, after another account's collect on that swap was committed.
C7_Witness ==
    /\ last.op = "collect"
    /\ ~data.collects_paused
    /\ LastSwap.objkt_amount > 0
    /\ IssuerCollectError(last.arg, LastSwap.xtz_per_objkt, "ok")
          = "The collector cannot be the swap issuer"

\* C8: a swap id that cancel_swap removed is reported absent by has_swap
\* and makes get_swap fail, in the state after the cancel and in every
\* later state.
C8_CancelledStaysAbsent ==
    \A swap_id \in cancelled :
        /\ ~has_swap(data, swap_id)
        /\ get_swap(data, swap_id).err = "The provided swap_id doesn't exist"

\* C8 witness: a swap was cancelled and a new swap was opened afterwards.
C8_Witness ==
    /\ 0 \in cancelled
    /\ last.op = "swap"
    /\ has_swap(data, 1)
    /\ ~has_swap(data, 0)

\* C9, on states: a cancel_swap succeeds only with no tez attached, on an
\* id in the big map, called by the issuer of that swap, with at least one
\* edition left.
C9_Preconditions ==
    \A sender \in Accounts, amount \in Amounts, swap_id \in SwapIds,
       env \in Envs :
        Outcome(cancel_swap(data, sender, amount, swap_id, env), amount, env).err = ""
        => /\ amount = 0
           /\ swap_id \in DOMAIN data.swaps
           /\ sender = data.swaps[swap_id].issuer
           /\ data.swaps[swap_id].objkt_amount > 0

\* C9, on steps: a committed cancel_swap executes one operation, the
\* transfer of exactly the editions the swap still held from the
\* marketplace to the issuer, and removes the swap.
C9_Step ==
    Committed("cancel_swap") =>
        LET sw == data.swaps[last'.arg] IN
        /\ last'.sender = sw.issuer
        /\ last'.amount = 0
        /\ sw.objkt_amount > 0
        /\ sw.objkt_amount = hist[last'.arg].editions - hist[last'.arg].collects
        /\ last'.ops = << fa2_transfer(sw.fa2, SelfAddress, sw.issuer,
                                       sw.objkt_id, sw.objkt_amount) >>
        /\ custody'[<< sw.fa2, sw.objkt_id >>]
              = custody[<< sw.fa2, sw.objkt_id >>] - sw.objkt_amount
        /\ last'.arg \notin DOMAIN data'.swaps

\* C9: cancel_swap succeeds only for the issuer, with no tez, on an
\* existing swap with editions left, and then gives exactly the editions
\* not yet collected back to the issuer and to nobody else.
C9_CancelReturnsRest == []C9_Preconditions /\ [][C9_Step]_vars

\* C9 witness: a swap of 2 editions was collected once and then cancelled,
\* and 1 edition went back.
C9_Witness ==
    /\ last.op = "cancel_swap"
    /\ hist[last.arg].editions = 2
    /\ hist[last.arg].collects = 1
    /\ last.ops[1].amount = 1
    /\ last.arg \in cancelled

\* The outcome of accept_manager called by sender with amount attached.
AcceptOutcome(sender, amount) ==
    Outcome(accept_manager(data, sender, amount), amount, "ok")

\* C10, for the other accounts: while a manager is proposed, accept_manager
\* fails with the authorization error for every account but the proposed
\* one, whatever the amount attached, and changes nothing.
C10_OthersRejected ==
    data.proposed_manager # None =>
        \A sender \in Accounts \ {data.proposed_manager}, amount \in Amounts :
            LET o == AcceptOutcome(sender, amount) IN
            /\ o.err = "This can only be executed by the proposed manager"
            /\ o.data.manager = data.manager
            /\ o.data.proposed_manager = data.proposed_manager

\* C10 as stated: while a manager is proposed, accept_manager is rejected
\* for every other account, and called by the proposed account it
\* succeeds, makes it the manager and clears the proposal.
C10_ProposedAlwaysAccepts ==
    /\ C10_OthersRejected
    /\ data.proposed_manager # None =>
          \A amount \in Amounts :
              LET o == AcceptOutcome(data.proposed_manager, amount) IN
              /\ o.err = ""
              /\ o.data.manager = data.proposed_manager
              /\ o.data.proposed_manager = None

\* C10, on states, amended: while a manager is proposed, accept_manager is
\* rejected for every other account; called by the proposed account with
\* no tez attached it succeeds, makes it the manager and clears the
\* proposal; called by the proposed account with tez attached it fails
\* with the tez-transfer error and changes nothing.
C10_Accept ==
    /\ C10_OthersRejected
    /\ data.proposed_manager # None =>
          \A amount \in Amounts :
              LET o == AcceptOutcome(data.proposed_manager, amount) IN
              IF amount = 0
              THEN /\ o.err = ""
                   /\ o.data.manager = data.proposed_manager
                   /\ o.data.proposed_manager = None
              ELSE /\ o.err = "The operation does not need tez transfers"
                   /\ o.data.manager = data.manager
                   /\ o.data.proposed_manager = data.proposed_manager

\* C10, on steps: a committed transfer_manager was called by the manager
\* and makes its argument the proposed manager, replacing an earlier
\* proposal; a committed accept_manager was called by the proposed manager
\* with no tez attached, who becomes the manager; nothing else changes
\* either field.
C10_Step ==
    /\ Committed("transfer_manager") =>
          /\ last'.sender = data.manager
          /\ data'.proposed_manager = last'.arg
          /\ data'.manager = data.manager
    /\ Committed("accept_manager") =>
          /\ last'.sender = data.proposed_manager
          /\ last'.amount = 0
          /\ data'.manager = data.proposed_manager
          /\ data'.proposed_manager = None
    /\ (~Committed("transfer_manager") /\ ~Committed("accept_manager")) =>
          /\ data'.manager = data.manager
          /\ data'.proposed_manager = data.proposed_manager

\* C10, amended: the manager is handed over in two phases: after
\* transfer_manager(B) only B can accept, any other account's
\* accept_manager fails with the authorization error and changes nothing,
\* B's accept with no tez attached makes B the manager and clears the
\* proposal, B's accept with tez attached fails and changes nothing, and a
\* later proposal replaces an earlier one.
C10_TwoPhaseHandover == []C10_Accept /\ [][C10_Step]_vars

\* C10 witness: carol, who is not the first manager, has accepted and is
\* the manager, and has proposed bob, whose accept_manager now fails when
\* tez is attached while alice's fails for authorization.
C10_Witness ==
    /\ data.manager = "carol"
    /\ last.op = "transfer_manager"
    /\ data.proposed_manager = "bob"
    /\ AcceptOutcome("bob", 7).err = "The operation does not need tez transfers"
    /\ AcceptOutcome("bob", 0).err = ""
    /\ AcceptOutcome("alice", 0).err
          = "This can only be executed by the proposed manager"

\* C11, on states: a swap of a token contract whose flag is not True in
\* allowed_fa2s fails for every sender, amount and parameters, whether the
\* flag is False or the contract was never added; is_allowed_fa2 answers
\* False for both; and with swaps not paused and no tez attached the error
\* is the one of the allowlist check.
C11_NotAllowedFails ==
    \A fa2 \in FA2s :
        /\ is_allowed_fa2(data, fa2)
              = (fa2 \in DOMAIN data.allowed_fa2s /\ data.allowed_fa2s[fa2])
        /\ ~is_allowed_fa2(data, fa2) =>
              \A sender \in Accounts, amount \in Amounts, params \in SwapParams,
                 env \in Envs :
                  params.fa2 = fa2 =>
                      LET o == Outcome(swap(data, sender, amount, params, env),
                                       amount, env)
                      IN /\ o.err # ""
                         /\ RolledBack(o)
                         /\ (~data.swaps_paused /\ amount = 0) =>
                               o.err = "This token type cannot be traded"

\* C11, on steps: a committed remove_fa2 leaves the key in allowed_fa2s
\* with the value False, a committed add_fa2 stores True, a committed swap
\* was of a token contract whose flag was True, and no step removes a key.
C11_Step ==
    /\ DOMAIN data.allowed_fa2s \subseteq DOMAIN data'.allowed_fa2s
    /\ Committed("remove_fa2") =>
          /\ last'.arg \in DOMAIN data'.allowed_fa2s
          /\ data'.allowed_fa2s[last'.arg] = FALSE
          /\ ~is_allowed_fa2(data', last'.arg)
    /\ Committed("add_fa2") => is_allowed_fa2(data', last'.arg)
    /\ Committed("swap") =>
          is_allowed_fa2(data, data'.swaps[data.counter].fa2)

\* C11: swap succeeds only for a token contract whose flag in
\* allowed_fa2s is True; remove_fa2 keeps the key with the value False,
\* is_allowed_fa2 then answers False and every swap of that contract fails
\* until add_fa2 stores True again; a contract never added behaves as one
\* set to False.
C11_Allowlist == []C11_NotAllowedFails /\ [][C11_Step]_vars

\* C11 witness: a swap of "objkt" was opened while it was allowed, then
\* the manager removed "objkt": the key is present with the value False,
\* "other" was never added, and a swap of either now fails on the
\* allowlist check.
C11_Witness ==
    /\ last.op = "remove_fa2"
    /\ last.arg = "objkt"
    /\ "objkt" \in DOMAIN data.allowed_fa2s
    /\ data.allowed_fa2s["objkt"] = FALSE
    /\ "other" \notin DOMAIN data.allowed_fa2s
    /\ \E id \in DOMAIN data.swaps : data.swaps[id].fa2 = "objkt"
    /\ \A params \in SwapParams :
          swap(data, "bob", 0, params, "ok").err
              = "This token type cannot be traded"

\* C12, the part the entry points enforce: every royalties value in the
\* swaps big map is in 0 .. 250, update_fee with more than 250 and swap
\* with royalties of more than 250 fail and change nothing.
C12_RatesValidated ==
    /\ \A id \in DOMAIN data.swaps : data.swaps[id].royalties \in 0..MaxRate
    /\ \A sender \in Accounts, amount \in Amounts, new_fee \in FeeInputs :
          new_fee > MaxRate =>
              LET o == Outcome(update_fee(data, sender, amount, new_fee),
                               amount, "ok")
              IN o.err # "" /\ o.data.fee = data.fee
    /\ \A sender \in Accounts, amount \in Amounts, params \in SwapParams,
          env \in Envs :
          params.royalties > MaxRate =>
              Outcome(swap(data, sender, amount, params, env), amount, env).err # ""

\* C12, on steps: the fee changes only in a committed update_fee, which
\* stores a value in 0 .. 250.
C12_Step ==
    /\ Committed("update_fee") => data'.fee \in 0..MaxRate
    /\ ~Committed("update_fee") => data'.fee = data.fee

\* C12 without the deployment: the entry points keep the royalties in
\* 0 .. 250 and only ever store a fee in 0 .. 250; the fee given at
\* deployment is stored as it is.
C12_EntryPointsBoundRates == []C12_RatesValidated /\ [][C12_Step]_vars

\* C12 as stated: in every reachable state, whatever fee the contract was
\* deployed with, the fee is in 0 .. 250 and the royalties of every swap
\* are in 0 .. 250; update_fee with more than 250 and swap with royalties
\* of more than 250 fail.
C12_RatesInRange ==
    /\ data.fee \in 0..MaxRate
    /\ C12_RatesValidated

\* C12 witness: the contract was deployed with a fee above 250 and a swap
\* was committed: the fee in the storage is still the deployed one.
C12_Witness ==
    /\ last.op = "swap"
    /\ data.fee > MaxRate
    /\ get_fee(data) = 950

\* The swaps in the big map that have no edition left.
Exhausted == {id \in DOMAIN data.swaps : data.swaps[id].objkt_amount = 0}

\* C13, on states: a swap with no edition left got there through collects,
\* every collect and every cancel_swap on it fails, has_swap answers True
\* and get_swap returns its record, with 0 editions.
C13_NoLegalOperation ==
    \A id \in Exhausted :
        /\ hist[id].editions > 0
        /\ hist[id].collects = hist[id].editions
        /\ has_swap(data, id)
        /\ get_swap(data, id).err = ""
        /\ get_swap(data, id).value = data.swaps[id]
        /\ get_swap(data, id).value.objkt_amount = 0
        /\ \A sender \in Accounts, amount \in Amounts, env \in Envs :
              /\ Outcome(collect(data, sender, amount, id, env), amount, env).err # ""
              /\ Outcome(cancel_swap(data, sender, amount, id, env), amount, env).err # ""

\* C13, on steps: no step removes or changes the record of a swap with no
\* edition left.
C13_Step ==
    \A id \in Exhausted :
        /\ id \in DOMAIN data'.swaps
        /\ data'.swaps[id] = data.swaps[id]

\* C13: once the editions of a swap reach 0 through collects, its record
\* stays in the swaps big map unchanged in every later state: collect and
\* cancel_swap on it fail and no other entry point touches it.
C13_ExhaustedPersists == []C13_NoLegalOperation /\ [][C13_Step]_vars

\* C13 witness: a swap of 1 edition was collected and another call was
\* committed afterwards; the record is still there with 0 editions.
C13_Witness ==
    /\ Exhausted # {}
    /\ last.op \notin {"collect", "swap", "origination"}
    /\ calls = 3

\* The storage with the swaps pause flag the other way round.
SwapsFlagFlipped == [data EXCEPT !.swaps_paused = ~data.swaps_paused]

\* The storage with the collects pause flag the other way round.
CollectsFlagFlipped == [data EXCEPT !.collects_paused = ~data.collects_paused]

\* C14, on states, swap: while swaps are paused every swap fails with the
\* pause error, and the collects pause flag makes no difference to a
\* swap: same error, same operations, same swaps and counter.
C14_SwapGate ==
    /\ data.swaps_paused =>
          \A sender \in Accounts, amount \in Amounts, params \in SwapParams,
             env \in Envs :
              Outcome(swap(data, sender, amount, params, env), amount, env).err
                  = "Swaps are paused"
    /\ \A amount \in Amounts, params \in SwapParams, env \in Envs :
          swap_error(CollectsFlagFlipped, amount, params, env)
              = swap_error(data, amount, params, env)
    /\ \A sender \in Accounts, params \in SwapParams :
          LET r == swap_storage(data, sender, params)
              f == swap_storage(CollectsFlagFlipped, sender, params)
          IN /\ f.swaps = r.swaps
             /\ f.counter = r.counter
             /\ f.swaps_paused = r.swaps_paused

\* C14, on states, collect: while collects are paused every collect fails
\* with the pause error, and the swaps pause flag makes no difference to
\* a collect: same error, same operations, same swaps.
C14_CollectGate ==
    /\ data.collects_paused =>
          \A sender \in Accounts, amount \in Amounts, swap_id \in SwapIds,
             env \in Envs :
              Outcome(collect(data, sender, amount, swap_id, env), amount, env).err
                  = "Collects are paused"
    /\ \A sender \in Accounts, amount \in Amounts, swap_id \in SwapIds,
          env \in Envs :
          LET r == collect(data, sender, amount, swap_id, env)
              f == collect(SwapsFlagFlipped, sender, amount, swap_id, env)
          IN /\ f.err = r.err
             /\ f.ops = r.ops
             /\ f.data.swaps = r.data.swaps
             /\ f.data.collects_paused = r.data.collects_paused

\* C14, on steps: a committed pause_swaps was called by the manager and
\* changes the swaps flag only, a committed pause_collects was called by
\* the manager and changes the collects flag only, and no other step
\* changes either flag.
C14_Step ==
    /\ Committed("pause_swaps") =>
          /\ last'.sender = data.manager
          /\ data' = [data EXCEPT !.swaps_paused = last'.arg]
    /\ Committed("pause_collects") =>
          /\ last'.sender = data.manager
          /\ data' = [data EXCEPT !.collects_paused = last'.arg]
    /\ ~Committed("pause_swaps") => data'.swaps_paused = data.swaps_paused
    /\ ~Committed("pause_collects") => data'.collects_paused = data.collects_paused

\* C14: the two pause flags gate independently: paused swaps make every
\* swap fail and leave collect as it is, paused collects make every
\* collect fail and leave swap as it is, and each flag is changed only by
\* its own manager entry point, which changes nothing else.
C14_IndependentPauses ==
    /\ []C14_SwapGate
    /\ []C14_CollectGate
    /\ [][C14_Step]_vars

\* C14 witness: a collect was committed while swaps were paused and
\* collects were not.
C14_Witness ==
    /\ last.op = "collect"
    /\ data.swaps_paused
    /\ ~data.collects_paused
    /\ swap(data, "bob", 0,
            [fa2 |-> "objkt", objkt_id |-> 0, objkt_amount |-> 1,
             xtz_per_objkt |-> 7, royalties |-> 100, creator |-> "bob"],
            "ok").err = "Swaps are paused"

\* The entry points that only the manager may call.
ManagerEntryPoints ==
    {"update_fee", "update_fee_recipient", "update_metadata", "add_fa2",
     "remove_fa2", "pause_swaps", "pause_collects", "transfer_manager"}

\* A call that is not the manager's, or carries tez, fails and leaves the
\* storage as it is.
Rejected(sender, amount, r) ==
    (sender # data.manager \/ amount # 0) =>
        LET o == Outcome(r, amount, "ok") IN
        o.err # "" /\ o.data = data

\* C15, on states: every manager entry point fails, and changes nothing,
\* unless the sender is the manager and no tez is attached.
C15_ManagerOnly ==
    \A sender \in Accounts, amount \in Amounts :
        /\ \A new_fee \in FeeInputs :
              Rejected(sender, amount, update_fee(data, sender, amount, new_fee))
        /\ \A a \in Accounts :
              /\ Rejected(sender, amount, update_fee_recipient(data, sender, amount, a))
              /\ Rejected(sender, amount, transfer_manager(data, sender, amount, a))
        /\ \A params \in MetadataParams :
              Rejected(sender, amount, update_metadata(data, sender, amount, params))
        /\ \A fa2 \in FA2s :
              /\ Rejected(sender, amount, add_fa2(data, sender, amount, fa2))
              /\ Rejected(sender, amount, remove_fa2(data, sender, amount, fa2))
        /\ \A pause \in BOOLEAN :
              /\ Rejected(sender, amount, pause_swaps(data, sender, amount, pause))
              /\ Rejected(sender, amount, pause_collects(data, sender, amount, pause))

\* C15, on steps: a committed call of a manager entry point was made by
\* the manager of the state before, with no tez; the fee, the fee
\* recipient, the metadata, the allowed FA2s and the pause flags change
\* only in a committed call of their manager entry point; the proposed
\* manager changes only in a committed transfer_manager or accept_manager.
C15_Step ==
    /\ \A op \in ManagerEntryPoints :
          Committed(op) => (last'.sender = data.manager /\ last'.amount = 0)
    /\ data'.fee # data.fee => Committed("update_fee")
    /\ data'.fee_recipient # data.fee_recipient => Committed("update_fee_recipient")
    /\ data'.metadata # data.metadata => Committed("update_metadata")
    /\ data'.allowed_fa2s # data.allowed_fa2s =>
          (Committed("add_fa2") \/ Committed("remove_fa2"))
    /\ data'.swaps_paused # data.swaps_paused => Committed("pause_swaps")
    /\ data'.collects_paused # data.collects_paused => Committed("pause_collects")
    /\ data'.proposed_manager # data.proposed_manager =>
          (Committed("transfer_manager") \/ Committed("accept_manager"))

\* C15: the governance fields change only through calls of the manager:
\* update_fee, update_fee_recipient, update_metadata, add_fa2, remove_fa2,
\* pause_swaps, pause_collects and transfer_manager each fail unless the
\* sender is the manager and no tez is attached, and whenever one of them
\* sets a field the sender was the manager of the state before.
C15_GovernanceByManager == []C15_ManagerOnly /\ [][C15_Step]_vars

\* C15 witness: after a handover to carol, carol changed the fee, and a
\* call by alice, the manager before, is now rejected.
C15_Witness ==
    /\ last.op = "update_fee"
    /\ last.sender = "carol"
    /\ data.manager = "carol"
    /\ data.fee = 250
    /\ Outcome(update_fee(data, "alice", 0, 250), 0, "ok").err
          = "This can only be executed by the manager"

\* The royalties and fee shares of a collect on swap id are together at
\* most half of the price, and the issuer share is not negative.
SharesAtMostHalf(id) ==
    LET sw == data.swaps[id]
        P == sw.xtz_per_objkt
        R == royalties_amount(data, sw)
        F == fee_amount(data, sw)
    IN /\ 2 * (R + F) <= P
       /\ issuer_amount(data, sw, P) >= 0
       /\ 2 * issuer_amount(data, sw, P) >= P

\* No collect on swap id that passed all the checks fails in the
\* subtraction of the issuer share.
NoUnderflow(id) ==
    \A sender \in Accounts, amount \in Amounts, env \in Envs :
        collect_error(data, sender, amount, id, env) # "mutez underflow"

\* C16 as stated: in every reachable state the royalties and fee shares
\* of a collect are together at most half of the price, the issuer share
\* is not negative, and no collect that passed its checks fails in the
\* subtraction of the issuer share.
C16_SharesAtMostHalf ==
    \A id \in DOMAIN data.swaps : SharesAtMostHalf(id) /\ NoUnderflow(id)

\* C16 with a fee in range: while the fee in the storage is at most 250,
\* the shares are at most half of the price and no collect underflows.
C16_HalfWhileFeeInRange ==
    data.fee <= MaxRate =>
        \A id \in DOMAIN data.swaps : SharesAtMostHalf(id) /\ NoUnderflow(id)

\* C16 witness: the contract was deployed with a fee of 950, a swap of
\* price 1000 with royalties of 100 is open, and bob's collect, with the
\* exact price and every check passed, fails in the subtraction
\* 1000 - 100 - 950.
C16_Witness ==
    \E id \in DOMAIN data.swaps :
        /\ data.fee = 950
        /\ data.swaps[id].xtz_per_objkt = 1000
        /\ data.swaps[id].royalties = 100
        /\ data.swaps[id].issuer = "alice"
        /\ issuer_amount(data, data.swaps[id], 1000) = -50
        /\ Outcome(collect(data, "bob", 1000, id, "ok"), 1000, "ok").err
              = "mutez underflow"

\* C17, on steps: a committed collect on a swap of price P > 0 issued a
\* send to the creator exactly when the royalties share is positive, a
\* send to the fee recipient exactly when the fee share is positive, and
\* one send to the issuer, in this order and nothing else; a committed
\* collect on a swap of price 0 issued no send; in both cases it issued
\* the transfer of one edition to the sender and took one edition off the
\* swap.
C17_Step ==
    Committed("collect") =>
        LET sw == data.swaps[last'.arg]
            P == sw.xtz_per_objkt
            R == royalties_amount(data, sw)
            F == fee_amount(data, sw)
            sends == SelectSeq(last'.ops, LAMBDA o : o.kind = "send")
            n == Len(sends)
        IN /\ P > 0 =>
                 /\ n = 1 + (IF R > 0 THEN 1 ELSE 0) + (IF F > 0 THEN 1 ELSE 0)
                 /\ sends[n] = Send(sw.issuer, P - R - F)
                 /\ R > 0 => sends[1] = Send(sw.creator, R)
                 /\ F > 0 => sends[n - 1] = Send(data.fee_recipient, F)
                 /\ \A i \in 1..n : sends[i].amount > 0 \/ i = n
           /\ P = 0 => sends = << >>
           /\ last'.ops
                 = sends \o << fa2_transfer(sw.fa2, SelfAddress, last'.sender,
                                            sw.objkt_id, 1) >>
           /\ data'.swaps[last'.arg].objkt_amount = sw.objkt_amount - 1

\* C17: a collect on a swap of positive price sends the royalties only if
\* positive, the fee only if positive and the issuer share always; a
\* collect on a swap of price 0 sends nothing, but still transfers one
\* edition to the collector and takes one edition off the swap.
C17_ConditionalSends == [][C17_Step]_vars

\* C17 witness: a collect on a swap of price 0 was committed with no send
\* and one transfer of one edition to the collector.
C17_Witness ==
    /\ last.op = "collect"
    /\ LastSwap.xtz_per_objkt = 0
    /\ last.amount = 0
    /\ last.ops = << fa2_transfer(LastSwap.fa2, SelfAddress, last.sender,
                                  LastSwap.objkt_id, 1) >>
    /\ hist[last.arg].collects = 1
    /\ LastSwap.objkt_amount = hist[last.arg].editions - 1

\* A call with tez attached fails.
RejectsTez(amount, r, env) ==
    amount # 0 => Outcome(r, amount, env).err # ""

\* C18, on states: the marketplace holds no tez, and every entry point
\* other than collect fails when tez is attached.
C18_NoBalance ==
    /\ balance = 0
    /\ \A sender \in Accounts, amount \in Amounts \ {0} :
          /\ \A params \in SwapParams, env \in Envs :
                RejectsTez(amount, swap(data, sender, amount, params, env), env)
          /\ \A swap_id \in SwapIds, env \in Envs :
                RejectsTez(amount, cancel_swap(data, sender, amount, swap_id, env), env)
          /\ \A new_fee \in FeeInputs :
                RejectsTez(amount, update_fee(data, sender, amount, new_fee), "ok")
          /\ \A a \in Accounts :
                /\ RejectsTez(amount, update_fee_recipient(data, sender, amount, a), "ok")
                /\ RejectsTez(amount, transfer_manager(data, sender, amount, a), "ok")
          /\ RejectsTez(amount, accept_manager(data, sender, amount), "ok")
          /\ \A params \in MetadataParams :
                RejectsTez(amount, update_metadata(data, sender, amount, params), "ok")
          /\ \A fa2 \in FA2s :
                /\ RejectsTez(amount, add_fa2(data, sender, amount, fa2), "ok")
                /\ RejectsTez(amount, remove_fa2(data, sender, amount, fa2), "ok")
          /\ \A pause \in BOOLEAN :
                /\ RejectsTez(amount, pause_swaps(data, sender, amount, pause), "ok")
                /\ RejectsTez(amount, pause_collects(data, sender, amount, pause), "ok")

\* C18, on steps: a committed collect sent out, in total, exactly the
\* amount it received; every other committed call received nothing and
\* sent nothing; no step changes the balance.
C18_Step ==
    /\ balance' = balance
    /\ Committed("collect") =>
          SumAmounts(SelectSeq(last'.ops, LAMBDA o : o.kind = "send")) = last'.amount
    /\ (calls' = calls + 1 /\ last'.op # "collect") =>
          /\ last'.amount = 0
          /\ SelectSeq(last'.ops, LAMBDA o : o.kind = "send") = << >>

\* C18: the marketplace never keeps tez: its balance is in every state the
\* balance it was deployed with, because every entry point other than
\* collect fails when tez is attached and every committed collect sends
\* out exactly the amount it received.
C18_NoRetainedTez == []C18_NoBalance /\ [][C18_Step]_vars

\* C18 witness: a collect of 1000 mutez was committed, its sends add up
\* to 1000 mutez and the marketplace balance is 0.
C18_Witness ==
    /\ last.op = "collect"
    /\ last.amount = 1000
    /\ SumAmounts(LastSends) = 1000
    /\ Len(LastSends) = 3
    /\ balance = 0

\* The swaps in the big map that still hold editions.
Open == {id \in DOMAIN data.swaps : data.swaps[id].objkt_amount > 0}

\* The storages that differ from the current one in what the manager
\* controls: the pause flags, the allowed FA2s and the manager.
ManagerSettings ==
    { [data EXCEPT !.swaps_paused = sp, !.collects_paused = cp,
                   !.allowed_fa2s = [f \in FA2s |-> al], !.manager = m] :
        sp \in BOOLEAN, cp \in BOOLEAN, al \in BOOLEAN, m \in Accounts }

\* C19, on states: for every swap that still holds editions, a
\* cancel_swap by its issuer with no tez, on a token ledger that executes
\* the transfer, succeeds, gives the issuer the editions left and removes
\* the swap; and it succeeds the same under every value of the pause
\* flags, of the allowed FA2s and of the manager.
C19_CancelEnabled ==
    \A id \in Open :
        LET sw == data.swaps[id]
            o == Outcome(cancel_swap(data, sw.issuer, 0, id, "ok"), 0, "ok")
        IN /\ o.err = ""
           /\ o.ops = << fa2_transfer(sw.fa2, SelfAddress, sw.issuer,
                                      sw.objkt_id, sw.objkt_amount) >>
           /\ id \notin DOMAIN o.data.swaps
           /\ \A s \in ManagerSettings :
                 LET r == cancel_swap(s, sw.issuer, 0, id, "ok") IN
                 /\ r.err = ""
                 /\ r.ops = o.ops
                 /\ Execute(s, custody, balance, r, 0, "ok").err = ""

\* C19: an issuer can always take back the editions not yet collected: in
\* every reachable state, whatever the pause flags, the allowed FA2s and
\* the manager, cancel_swap by the issuer of a swap with editions left
\* succeeds when no tez is attached and the token transfer succeeds.
C19_IssuerCanCancel == []C19_CancelEnabled

\* C19 witness: the manager removed the FA2 of an open swap from the
\* allowed ones, and the issuer then cancelled the swap.
C19_Witness ==
    /\ last.op = "cancel_swap"
    /\ ~is_allowed_fa2(data, "objkt")
    /\ "objkt" \in DOMAIN data.allowed_fa2s
    /\ last.arg \in cancelled
    /\ last.ops[1].fa2 = "objkt"
    /\ last.ops[1].to_ = last.sender

\* The fields of a swap record that are fixed at opening.
Terms(sw) ==
    << sw.issuer, sw.fa2, sw.objkt_id, sw.xtz_per_objkt, sw.royalties,
       sw.creator >>

\* C20, on steps: a committed update_fee changes the fee only, a
\* committed update_fee_recipient changes the fee recipient only; no step
\* changes the price, the royalties, the creator or the issuer of a swap
\* in the big map; and a committed collect on a swap of positive price
\* computed the fee share with the fee, and sent it to the fee recipient,
\* of the storage at the time of the collect.
C20_Step ==
    /\ Committed("update_fee") => data' = [data EXCEPT !.fee = last'.arg]
    /\ Committed("update_fee_recipient") =>
          data' = [data EXCEPT !.fee_recipient = last'.arg]
    /\ \A id \in DOMAIN data.swaps \cap DOMAIN data'.swaps :
          Terms(data'.swaps[id]) = Terms(data.swaps[id])
    /\ Committed("collect") =>
          LET sw == data.swaps[last'.arg]
              P == sw.xtz_per_objkt
              R == Share(P, sw.royalties)
              F == Share(P, data.fee)
              sends == SelectSeq(last'.ops, LAMBDA o : o.kind = "send")
          IN P > 0 =>
                sends = (IF R > 0 THEN << Send(sw.creator, R) >> ELSE << >>)
                        \o (IF F > 0 THEN << Send(data.fee_recipient, F) >>
                                      ELSE << >>)
                        \o << Send(sw.issuer, P - R - F) >>

\* C20: a collect takes the fee and the fee recipient from the storage at
\* the time of the collect, not of the swap: after an update_fee or an
\* update_fee_recipient between the swap and the collect, the collect
\* splits the price with the new fee and pays the new fee recipient,
\* while the price, the royalties, the creator and the issuer of the swap
\* stay as the swap recorded them.
C20_FeeAtCollectTime == [][C20_Step]_vars

\* C20 witness: a swap of price 1000 was opened while the fee was 25, the
\* manager then set the fee to 250, and the collect sent 100 to the
\* creator, 250 to the fee recipient and 650 to the issuer.
C20_Witness ==
    /\ last.op = "collect"
    /\ hist[last.arg].fee = 25
    /\ data.fee = 250
    /\ LastSwap.xtz_per_objkt = 1000
    /\ LastSends = << Send(LastSwap.creator, 100),
                      Send(data.fee_recipient, 250),
                      Send(LastSwap.issuer, 650) >>

====
